---- MODULE Spec2Model ----
(***************************************************************************)
(* The voice session engine of src/App.tsx (component VoiceModal): the     *)
(* session life cycle, microphone capture, the transport callbacks and the *)
(* playback scheduler, as a state machine over the JavaScript event loop.  *)
(*                                                                         *)
(* Every callback the browser or the transport invokes is a task: it runs  *)
(* when the microtask queue is empty.  What a callback leaves behind an    *)
(* `await` or a `.then` is a microtask: it is appended to `microtasks`, and*)
(* the queue is drained in order before the next task runs.                *)
(***************************************************************************)
EXTENDS Integers, Sequences, FiniteSets, TLC

\* ------------------------------------------------------------------ bounds
\* Audio-bearing inbound messages whose chunk decodes (buffers ever scheduled).
MaxChunks == 3
\* Blocks the script processor delivers to onaudioprocess.
MaxBlocks == 2
\* Largest output-device time (in abstract time units).
MaxTime == 2
\* Longest buffer duration (in the same units).
MaxDur == 2

VARIABLES
    status,           \* useState status: connecting | listening | speaking | error
    errorMessage,     \* useState errorMessage: "" | "lost" | "mic"
    isMounted,        \* isMountedRef.current
    mic,              \* the getUserMedia promise: pending | granted | failed
    streamRef,        \* streamRef: null | live | stopped (its tracks)
    sessionPromise,   \* sessionPromiseRef: null | pending | resolved
    conn,             \* the transport connection: none | connecting | open | closed | failed
    opened,           \* the transport fired onopen
    errFired,         \* the transport fired onerror
    thenQueue,        \* reactions registered on the pending session promise, in order
    microtasks,       \* the microtask queue
    processor,        \* scriptProcessorRef and its wiring: null | connected | disconnected
    inputCtx,         \* inputContextRef's context: running | closed
    outputCtx,        \* outputContextRef's context: running | closed
    captured,         \* number of blocks onaudioprocess has encoded
    sent,             \* blocks passed to session.sendRealtimeInput on an open connection, in order
    currentTime,      \* outputContextRef.current.currentTime
    nextStartTime,    \* nextStartTimeRef.current, the playback cursor
    enqueued,         \* number of buffer sources created and started so far
    sources,          \* sourcesRef.current: the sources, each [id, start, dur]
    stopped,          \* ids of the sources stop() was called on, whose 'ended' event is still due
    last,             \* the source started most recently since the last stopAllAudio (NoBuffer if none)
    timers,           \* pending 200 ms timers armed by the 'ended' listener
    lastOp,           \* what the last step ran: interrupted | play | dropped | timer | other
    cleanups,         \* number of times cleanup() has run
    rejections,       \* promises rejected by close() on a closed context (nothing handles them)
    codecOp,          \* the codec helpers under check: none | samples | bytes | pcm | base64
    codecIn,          \* their input: Float32 samples (in SubSteps-ths of 1/32768) or bytes
    codecOut,         \* their output, in the same unit
    appState,         \* App: UPLOAD | ANALYZING | RESULTS | ERROR
    selectedImage,    \* App: the selected image (0 = null, n = the n-th image selected)
    animalData,       \* App: 0 = null, n = the details identified for image n
    isChatOpen,       \* App: the chat sidebar is open
    isVoiceOpen,      \* App: the voice modal is open
    errorMsg,         \* App: null | failed
    identifying,      \* images whose identifyAnimal call has not settled yet
    selections        \* number of images selected so far

vars == <<status, errorMessage, isMounted, mic, streamRef, sessionPromise, conn,
          opened, errFired, thenQueue, microtasks, processor, inputCtx, outputCtx,
          captured, sent, currentTime, nextStartTime, enqueued, sources, stopped,
          last, timers, lastOp, cleanups, rejections, codecOp, codecIn, codecOut,
          appState, selectedImage, animalData, isChatOpen, isVoiceOpen, errorMsg,
          identifying, selections>>

teardownVars == <<cleanups, rejections>>
codecVars == <<codecOp, codecIn, codecOut>>
appVars == <<appState, selectedImage, animalData, isChatOpen, isVoiceOpen, errorMsg,
             identifying, selections>>

Max(a, b) == IF a >= b THEN a ELSE b

\* No buffer source (ids start at 1).
NoBuffer == [id |-> 0, start |-> 0, dur |-> 0]

\* The status value the callbacks created at mount see: the effect runs once
\* (dependency list []), so startSession, onmessage and playAudioChunk close
\* over the first render, whose status is the initial 'connecting'.
ClosureStatus == "connecting"

\* A microtask: kind is play (the rest of onmessage after `await playAudioChunk`),
\* send (the .then of onaudioprocess) or close (the .then of cleanup).
Task(kind, arg, intr, turn) == [kind |-> kind, arg |-> arg, intr |-> intr, turn |-> turn]

\* promise.then(reaction): a microtask if the promise is resolved, else queued on it.
ThenMicro(t) == IF sessionPromise = "resolved" THEN Append(microtasks, t) ELSE microtasks

\* Mutant of ThenPending: a new reaction is put in front of the earlier ones.
ThenPending_Prepend(t) == IF sessionPromise = "pending" THEN <<t>> \o thenQueue ELSE thenQueue

ThenPending(t) == IF sessionPromise = "pending" THEN Append(thenQueue, t) ELSE thenQueue

\* ------------------------------------------------------------ the scheduler
\* Mutant of StartTime: the cursor is used as it is, without the Math.max.
StartTime_NoMax(cursor, now) == cursor

\* playAudioChunk: "Ensure we don't schedule in the past".
StartTime(cursor, now) == Max(cursor, now)

\* Mutant of AdvanceCursor: the cursor is left at the buffer's start.
AdvanceCursor_NoAdvance(start, dur) == start

\* playAudioChunk: "Advance time cursor".
AdvanceCursor(start, dur) == start + dur

\* Mutant of stopAllAudio: the cursor is reset to 0 and not to the device time.
stopAllAudio_ZeroCursor(srcs, stp, now) ==
    [sources |-> {}, stopped |-> stp \cup {s.id : s \in srcs}, nextStartTime |-> 0]

\* Mutant of stopAllAudio: the set is cleared without stopping the sources.
stopAllAudio_NoStop(srcs, stp, now) ==
    [sources |-> {}, stopped |-> stp, nextStartTime |-> now]

\* Mutant of stopAllAudio: the sources are stopped but stay in the set.
stopAllAudio_NoClear(srcs, stp, now) ==
    [sources |-> srcs, stopped |-> stp \cup {s.id : s \in srcs}, nextStartTime |-> now]

\* stopAllAudio: stop every source, clear the set, reset the cursor to device time.
stopAllAudio(srcs, stp, now) ==
    [sources |-> {}, stopped |-> stp \cup {s.id : s \in srcs}, nextStartTime |-> now]

\* The 'ended' listener's condition for arming the drained timer.
Drained(srcs) == srcs = {} /\ isMounted

\* Mutant of TimerStatus: the timer writes back the status its closure captured.
TimerStatus_Captured(st) == ClosureStatus

\* Mutant of TimerStatus: the timer tests the status of the moment it fires.
TimerStatus_Live(st) == IF st = "speaking" THEN "listening" ELSE st

\* The drained timer's body: if (status === 'speaking') setStatus('listening').
TimerStatus(st) == IF ClosureStatus = "speaking" THEN "listening" ELSE st

\* ------------------------------------------------------------------- Init
\* The state after mount: the effect has run startSession up to its first
\* await (both audio contexts exist, the microphone request is pending).
SessionInit ==
    /\ status = "connecting"
    /\ errorMessage = ""
    /\ isMounted = TRUE
    /\ mic = "pending"
    /\ streamRef = "null"
    /\ sessionPromise = "null"
    /\ conn = "none"
    /\ opened = FALSE
    /\ errFired = FALSE
    /\ thenQueue = <<>>
    /\ microtasks = <<>>
    /\ processor = "null"
    /\ inputCtx = "running"
    /\ outputCtx = "running"
    /\ captured = 0
    /\ sent = <<>>
    /\ currentTime = 0
    /\ nextStartTime = 0
    /\ enqueued = 0
    /\ sources = {}
    /\ stopped = {}
    /\ last = NoBuffer
    /\ timers = 0
    /\ lastOp = "other"
    /\ cleanups = 0
    /\ rejections = 0

\* App's useState initial values; no identification is in flight.
AppStart ==
    /\ appState = "UPLOAD"
    /\ selectedImage = 0
    /\ animalData = 0
    /\ isChatOpen = FALSE
    /\ isVoiceOpen = FALSE
    /\ errorMsg = "null"
    /\ identifying = {}
    /\ selections = 0

\* The voice session: the codec helpers are exercised by CodecSpec, the App
\* component by AppSpec.
Init ==
    /\ SessionInit
    /\ AppStart
    /\ codecOp = "none"
    /\ codecIn = <<>>
    /\ codecOut = <<>>

\* Mutant of Idle: a task may run while continuations are still pending (as if
\* decoding yielded to the task queue).
Idle_Always == TRUE

Idle == microtasks = <<>>

schedVars == <<nextStartTime, enqueued, sources, stopped, last, timers>>

captureVars == <<processor, captured, sent>>

deviceVars == <<streamRef, inputCtx, outputCtx>>

transportVars == <<conn, opened, errFired>>

\* ------------------------------------------------------------ startSession
\* getUserMedia resolves: the rest of the try block runs (no mounted check):
\* the stream is kept and ai.live.connect is called.
MicGranted ==
    /\ Idle
    /\ mic = "pending"
    /\ mic' = "granted"
    /\ streamRef' = "live"
    /\ sessionPromise' = "pending"
    /\ conn' = "connecting"
    /\ lastOp' = "other"
    /\ UNCHANGED <<status, errorMessage, isMounted, opened, errFired, thenQueue, microtasks,
                   inputCtx, outputCtx, currentTime>>
    /\ UNCHANGED <<schedVars, captureVars>>
    /\ UNCHANGED <<teardownVars, codecVars, appVars>>

\* Mutant of CatchStatus: the catch block leaves the status as it was.
CatchStatus_Unset == "connecting"

\* The status the catch block of startSession sets.
CatchStatus == "error"

\* getUserMedia rejects: the catch block runs; connect is never called.
MicDenied ==
    /\ Idle
    /\ mic = "pending"
    /\ mic' = "failed"
    /\ status' = CatchStatus
    /\ errorMessage' = "mic"
    /\ lastOp' = "other"
    /\ UNCHANGED <<isMounted, sessionPromise, thenQueue, microtasks, currentTime>>
    /\ UNCHANGED <<schedVars, captureVars, deviceVars, transportVars>>
    /\ UNCHANGED <<teardownVars, codecVars, appVars>>

\* Mutant of setupAudioInput: the early return is always taken.
setupAudioInput_NoWire(proc) == proc

\* setupAudioInput: returns early unless the input context, the stream and the
\* session promise exist; otherwise creates and connects the script processor.
setupAudioInput(proc) == IF streamRef = "null" \/ sessionPromise = "null" THEN proc ELSE "connected"

\* callbacks.onopen
OnOpen ==
    /\ Idle
    /\ conn = "connecting"
    /\ conn' = "open"
    /\ opened' = TRUE
    /\ status' = IF isMounted THEN "listening" ELSE status
    /\ processor' = IF isMounted THEN setupAudioInput(processor) ELSE processor
    /\ lastOp' = "other"
    /\ UNCHANGED <<errorMessage, isMounted, mic, sessionPromise, errFired, thenQueue, microtasks,
                   captured, sent, currentTime>>
    /\ UNCHANGED <<schedVars, deviceVars>>
    /\ UNCHANGED <<teardownVars, codecVars, appVars>>

\* The promise ai.live.connect returned resolves with the session (after the
\* connection opened); the reactions registered on it become microtasks.
SessionResolve ==
    /\ Idle
    /\ opened
    /\ sessionPromise = "pending"
    /\ sessionPromise' = "resolved"
    /\ microtasks' = thenQueue
    /\ thenQueue' = <<>>
    /\ lastOp' = "other"
    /\ UNCHANGED <<status, errorMessage, isMounted, mic, currentTime>>
    /\ UNCHANGED <<schedVars, captureVars, deviceVars, transportVars>>
    /\ UNCHANGED <<teardownVars, codecVars, appVars>>

\* callbacks.onerror
OnError ==
    /\ Idle
    /\ conn \in {"connecting", "open"}
    /\ ~errFired
    /\ errFired' = TRUE
    /\ conn' = IF conn = "connecting" THEN "failed" ELSE conn
    /\ status' = IF isMounted THEN "error" ELSE status
    /\ errorMessage' = IF isMounted THEN "lost" ELSE errorMessage
    /\ lastOp' = "other"
    /\ UNCHANGED <<isMounted, mic, sessionPromise, opened, thenQueue, microtasks, currentTime>>
    /\ UNCHANGED <<schedVars, captureVars, deviceVars>>
    /\ UNCHANGED <<teardownVars, codecVars, appVars>>

\* Mutant of OnClose: the callback reports the close as onerror reports a failure.
OnClose_AsError ==
    /\ Idle
    /\ conn = "open"
    /\ conn' = "closed"
    /\ status' = IF isMounted THEN "error" ELSE status
    /\ errorMessage' = IF isMounted THEN "lost" ELSE errorMessage
    /\ lastOp' = "other"
    /\ UNCHANGED <<isMounted, mic, sessionPromise, opened, errFired, thenQueue, microtasks,
                   currentTime>>
    /\ UNCHANGED <<schedVars, captureVars, deviceVars>>
    /\ UNCHANGED <<teardownVars, codecVars, appVars>>

\* callbacks.onclose: the remote ended the session; the callback only logs.
OnClose ==
    /\ Idle
    /\ conn = "open"
    /\ conn' = "closed"
    /\ lastOp' = "other"
    /\ UNCHANGED <<status, errorMessage, isMounted, mic, sessionPromise, opened, errFired,
                   thenQueue, microtasks, currentTime>>
    /\ UNCHANGED <<schedVars, captureVars, deviceVars>>
    /\ UNCHANGED <<teardownVars, codecVars, appVars>>

\* ---------------------------------------------------------------- onmessage
\* The status the Interrupted branch sets, after stopAllAudio.
InterruptedStatus == "listening"

\* Mutant of TurnCompleteStatus: the TurnComplete branch leaves the status at speaking.
TurnCompleteStatus_Speaking == "speaking"

\* The status the TurnComplete branch sets.
TurnCompleteStatus == "listening"

\* The two trailing branches of onmessage, in the code's order, applied to the
\* scheduler state (srcs, cur, lst) the audio branch left.
MessageTail(intr, turn, srcs, cur, lst) ==
    LET fl == stopAllAudio(srcs, stopped, currentTime) IN
    /\ sources' = IF intr THEN fl.sources ELSE srcs
    /\ stopped' = IF intr THEN fl.stopped ELSE stopped
    /\ nextStartTime' = IF intr THEN fl.nextStartTime ELSE cur
    /\ last' = IF intr THEN NoBuffer ELSE lst
    /\ status' = IF turn THEN TurnCompleteStatus
                 ELSE IF intr THEN InterruptedStatus
                 ELSE status

\* What a step that ran onmessage's branches is recorded as.
TailOp(intr, other) == IF intr THEN "interrupted" ELSE other

\* Mutant of OnMessage: the Interrupted branch also closes the transport and
\* disconnects the capture chain.
OnMessage_InterruptCloses(audio, intr, turn) ==
    /\ Idle
    /\ conn = "open"
    /\ audio > 0 => enqueued < MaxChunks
    /\ IF ~isMounted
       THEN /\ lastOp' = "other"
            /\ UNCHANGED <<status, microtasks, conn, processor>>
            /\ UNCHANGED schedVars
       ELSE IF audio # 0
       THEN /\ status' = "speaking"
            /\ microtasks' = Append(microtasks, Task("play", audio, intr, turn))
            /\ lastOp' = "other"
            /\ UNCHANGED <<schedVars, conn, processor>>
       ELSE /\ MessageTail(intr, turn, sources, nextStartTime, last)
            /\ lastOp' = TailOp(intr, "other")
            /\ conn' = IF intr THEN "closed" ELSE conn
            /\ processor' = IF intr /\ processor = "connected" THEN "disconnected" ELSE processor
            /\ UNCHANGED <<microtasks, enqueued, timers>>
    /\ UNCHANGED <<errorMessage, isMounted, mic, sessionPromise, thenQueue, currentTime>>
    /\ UNCHANGED <<captured, sent, deviceVars, opened, errFired>>
    /\ UNCHANGED <<teardownVars, codecVars, appVars>>

\* callbacks.onmessage, up to its first await.  audio: 0 = no inline audio,
\* -1 = a chunk whose decoding throws, d > 0 = a chunk of duration d.
OnMessage(audio, intr, turn) ==
    /\ Idle
    /\ conn = "open"
    /\ audio > 0 => enqueued < MaxChunks
    /\ IF ~isMounted
       THEN /\ lastOp' = "other"
            /\ UNCHANGED <<status, microtasks>>
            /\ UNCHANGED schedVars
       ELSE IF audio # 0
       THEN /\ status' = "speaking"
            /\ microtasks' = Append(microtasks, Task("play", audio, intr, turn))
            /\ lastOp' = "other"
            /\ UNCHANGED schedVars
       ELSE /\ MessageTail(intr, turn, sources, nextStartTime, last)
            /\ lastOp' = TailOp(intr, "other")
            /\ UNCHANGED <<microtasks, enqueued, timers>>
    /\ UNCHANGED <<errorMessage, isMounted, mic, sessionPromise, thenQueue, currentTime>>
    /\ UNCHANGED <<captureVars, deviceVars, transportVars>>
    /\ UNCHANGED <<teardownVars, codecVars, appVars>>

\* Mutant of Decodes: a chunk that cannot be decoded is scheduled all the same.
Decodes_Always(audio) == TRUE

\* Whether decode and decodeAudioData return a buffer for the chunk; if they
\* throw, the catch of playAudioChunk logs and the chunk is skipped.
Decodes(audio) == audio > 0

\* The rest of onmessage after `await playAudioChunk`: the buffer is scheduled
\* (unless decoding threw, which the catch logs), then the two branches run.
PlayContinuation ==
    /\ microtasks # <<>>
    /\ Head(microtasks).kind = "play"
    /\ LET t == Head(microtasks)
           ok == Decodes(t.arg)
           start == StartTime(nextStartTime, currentTime)
           source == [id |-> enqueued + 1, start |-> start, dur |-> t.arg]
       IN /\ enqueued' = IF ok THEN enqueued + 1 ELSE enqueued
          /\ MessageTail(t.intr, t.turn,
                         IF ok THEN sources \cup {source} ELSE sources,
                         IF ok THEN AdvanceCursor(start, t.arg) ELSE nextStartTime,
                         IF ok THEN source ELSE last)
          /\ lastOp' = TailOp(t.intr, IF ok THEN "play" ELSE "dropped")
    /\ microtasks' = Tail(microtasks)
    /\ UNCHANGED <<errorMessage, isMounted, mic, sessionPromise, thenQueue, currentTime, timers>>
    /\ UNCHANGED <<captureVars, deviceVars, transportVars>>
    /\ UNCHANGED <<teardownVars, codecVars, appVars>>

\* The 'ended' listener of a buffer source that played to its end.
EndedNaturally(src) ==
    /\ Idle
    /\ src \in sources
    /\ currentTime >= src.start + src.dur
    /\ sources' = sources \ {src}
    /\ timers' = IF Drained(sources \ {src}) THEN timers + 1 ELSE timers
    /\ lastOp' = "other"
    /\ UNCHANGED <<status, errorMessage, isMounted, mic, sessionPromise, thenQueue, microtasks,
                   currentTime, nextStartTime, enqueued, stopped, last>>
    /\ UNCHANGED <<captureVars, deviceVars, transportVars>>
    /\ UNCHANGED <<teardownVars, codecVars, appVars>>

\* The 'ended' listener of a buffer source stop() was called on: stopAllAudio
\* already took it out of the set, so delete() finds nothing.
EndedStopped(id) ==
    /\ Idle
    /\ id \in stopped
    /\ stopped' = stopped \ {id}
    /\ sources' = {s \in sources : s.id # id}
    /\ timers' = IF Drained({s \in sources : s.id # id}) THEN timers + 1 ELSE timers
    /\ lastOp' = "other"
    /\ UNCHANGED <<status, errorMessage, isMounted, mic, sessionPromise, thenQueue, microtasks,
                   currentTime, nextStartTime, enqueued, last>>
    /\ UNCHANGED <<captureVars, deviceVars, transportVars>>
    /\ UNCHANGED <<teardownVars, codecVars, appVars>>

\* The setTimeout callback armed by the 'ended' listener.
TimerFire ==
    /\ Idle
    /\ timers > 0
    /\ timers' = timers - 1
    /\ status' = TimerStatus(status)
    /\ lastOp' = "timer"
    /\ UNCHANGED <<errorMessage, isMounted, mic, sessionPromise, thenQueue, microtasks,
                   currentTime, nextStartTime, enqueued, sources, stopped, last>>
    /\ UNCHANGED <<captureVars, deviceVars, transportVars>>
    /\ UNCHANGED <<teardownVars, codecVars, appVars>>

\* The output device clock advances while the output context runs.
Tick ==
    /\ Idle
    /\ outputCtx = "running"
    /\ currentTime < MaxTime
    /\ currentTime' = currentTime + 1
    /\ lastOp' = "other"
    /\ UNCHANGED <<status, errorMessage, isMounted, mic, sessionPromise, thenQueue, microtasks>>
    /\ UNCHANGED <<schedVars, captureVars, deviceVars, transportVars>>
    /\ UNCHANGED <<teardownVars, codecVars, appVars>>

\* ------------------------------------------------------------------ capture
\* processor.onaudioprocess: encode the block and hand it to the session promise.
OnAudioProcess ==
    /\ Idle
    /\ processor = "connected"
    /\ inputCtx = "running"
    /\ captured < MaxBlocks
    /\ IF isMounted
       THEN /\ captured' = captured + 1
            /\ microtasks' = ThenMicro(Task("send", captured + 1, FALSE, FALSE))
            /\ thenQueue' = ThenPending(Task("send", captured + 1, FALSE, FALSE))
       ELSE UNCHANGED <<captured, microtasks, thenQueue>>
    /\ lastOp' = "other"
    /\ UNCHANGED <<status, errorMessage, isMounted, mic, sessionPromise, processor, sent, currentTime>>
    /\ UNCHANGED <<schedVars, deviceVars, transportVars>>
    /\ UNCHANGED <<teardownVars, codecVars, appVars>>

\* session.sendRealtimeInput({ media: pcmBlob }): transmitted on an open connection.
SendMicrotask ==
    /\ microtasks # <<>>
    /\ Head(microtasks).kind = "send"
    /\ sent' = IF conn = "open" THEN Append(sent, Head(microtasks).arg) ELSE sent
    /\ microtasks' = Tail(microtasks)
    /\ lastOp' = "other"
    /\ UNCHANGED <<status, errorMessage, isMounted, mic, sessionPromise, thenQueue, processor,
                   captured, currentTime>>
    /\ UNCHANGED <<schedVars, deviceVars, transportVars>>
    /\ UNCHANGED <<teardownVars, codecVars, appVars>>

\* session.close(), the reaction cleanup registered.
CloseMicrotask ==
    /\ microtasks # <<>>
    /\ Head(microtasks).kind = "close"
    /\ conn' = IF conn = "open" THEN "closed" ELSE conn
    /\ microtasks' = Tail(microtasks)
    /\ lastOp' = "other"
    /\ UNCHANGED <<status, errorMessage, isMounted, mic, sessionPromise, opened, errFired,
                   thenQueue, currentTime>>
    /\ UNCHANGED <<schedVars, captureVars, deviceVars>>
    /\ UNCHANGED <<teardownVars, codecVars, appVars>>

\* ------------------------------------------------------------------ teardown
\* cleanup: close the session (through its promise), stop the tracks,
\* disconnect the nodes, close both contexts.  Each step is guarded by its ref.
cleanup ==
    /\ microtasks' = IF sessionPromise = "null" THEN microtasks
                     ELSE ThenMicro(Task("close", 0, FALSE, FALSE))
    /\ thenQueue' = IF sessionPromise = "null" THEN thenQueue
                    ELSE ThenPending(Task("close", 0, FALSE, FALSE))
    /\ streamRef' = IF streamRef = "null" THEN streamRef ELSE "stopped"
    /\ processor' = IF processor = "null" THEN processor ELSE "disconnected"
    /\ rejections' = rejections + (IF inputCtx = "closed" THEN 1 ELSE 0)
                                 + (IF outputCtx = "closed" THEN 1 ELSE 0)
    /\ inputCtx' = "closed"
    /\ outputCtx' = "closed"
    /\ cleanups' = cleanups + 1

\* The effect's cleanup function: the component unmounts (the user closed the
\* modal, or the parent removed it).
Unmount ==
    /\ Idle
    /\ isMounted
    /\ isMounted' = FALSE
    /\ cleanup
    /\ lastOp' = "other"
    /\ UNCHANGED <<status, errorMessage, mic, sessionPromise, captured, sent, currentTime>>
    /\ UNCHANGED <<schedVars, transportVars, codecVars, appVars>>

Audio == -1..MaxDur

Next ==
    \/ MicGranted
    \/ MicDenied
    \/ OnOpen
    \/ SessionResolve
    \/ OnError
    \/ OnClose
    \/ \E a \in Audio, i \in BOOLEAN, t \in BOOLEAN : OnMessage(a, i, t)
    \/ PlayContinuation
    \/ \E src \in sources : EndedNaturally(src)
    \/ \E id \in stopped : EndedStopped(id)
    \/ TimerFire
    \/ Tick
    \/ OnAudioProcess
    \/ SendMicrotask
    \/ CloseMicrotask
    \/ Unmount

Spec == Init /\ [][Next]_vars

\* ===================================================================== claims
\* A step that started a buffer source which is still the latest of its epoch.
PlayStep == enqueued' = enqueued + 1 /\ last' # NoBuffer

\* A step that ran stopAllAudio (the Interrupted branch of onmessage).
FlushStep == lastOp' = "interrupted"

\* C1 - Cursor monotonicity: with no stopAllAudio in between, the start times
\* given to the buffers are non-decreasing, each start time is at least the
\* output device time when the buffer is scheduled, and the cursor decreases in
\* no step other than a stopAllAudio.
C1_CursorMonotone ==
    [][ /\ PlayStep => /\ last'.start >= currentTime'
                       /\ last # NoBuffer => last'.start >= last.start
        /\ nextStartTime' < nextStartTime => FlushStep ]_vars

\* C1 witness: a second buffer of an epoch was scheduled after the device time
\* had overtaken the cursor.
C1_Witness ==
    /\ lastOp = "play"
    /\ last.id >= 2
    /\ last.start = currentTime
    /\ currentTime > 0
    /\ Cardinality(sources) >= 1

\* No two sources of the active set occupy overlapping windows, and they are
\* laid out in the order they were enqueued.
NoOverlap ==
    \A a, b \in sources : a.id < b.id => a.start + a.dur <= b.start

\* C2 - Gapless, non-overlapping playback: every buffer is started at
\* max(cursor, device time), the cursor then is start + duration, a buffer
\* starts no earlier than the end of the buffer enqueued before it in the same
\* epoch, and the active buffers do not overlap and are in enqueue order.
C2_GaplessNoOverlap ==
    /\ []NoOverlap
    /\ [][ PlayStep => /\ last'.start = Max(nextStartTime, currentTime)
                       /\ nextStartTime' = last'.start + last'.dur
                       /\ last # NoBuffer => last'.start >= last.start + last.dur ]_vars

\* C2 witness: three buffers are active back to back.
C2_Witness ==
    /\ Cardinality(sources) = 3
    /\ \A a \in sources : a.id = last.id \/ \E b \in sources : b.start = a.start + a.dur

\* C3 - Flush clears state: after stopAllAudio the active set is empty and the
\* cursor equals the output device time, whatever the set held before.
C3_FlushClears ==
    lastOp = "interrupted" => sources = {} /\ nextStartTime = currentTime

\* C3 witness: a flush of two buffers at a device time later than 0, with the
\* cursor ahead of the device time before it.
C3_Witness ==
    /\ lastOp = "interrupted"
    /\ Cardinality(stopped) >= 2
    /\ currentTime > 0
    /\ sources = {}

\* C4 - Interruption: handling an event that carries Interrupted stops every
\* buffer of the active set and empties the set, resets the cursor to the
\* device time and leaves the status at listening, in that one handling.
C4_Interrupted ==
    [][ FlushStep => /\ {s.id : s \in sources} \subseteq stopped'
                     /\ sources' = {}
                     /\ nextStartTime' = currentTime'
                     /\ status' = "listening" ]_vars

\* C4 witness: three active buffers were stopped by one Interrupted event.
C4_Witness ==
    /\ lastOp = "interrupted"
    /\ Cardinality(stopped) = 3
    /\ sources = {}
    /\ nextStartTime = currentTime
    /\ status = "listening"

\* C5 - Drained playback returns to listening: once the timer armed by the
\* completion of the last active buffer has fired, the status is no longer
\* speaking.
C5_DrainedReturnsToListening ==
    lastOp = "timer" /\ sources = {} => status # "speaking"

\* C6 - The error status is terminal: no step changes the status once it is
\* error.
C6_ErrorTerminal ==
    [][ status = "error" => status' = "error" ]_vars

\* C7 - Error teardown: while the status is error after a transport onerror or
\* a microphone failure, capture is not running, the transport is not open and
\* no playback buffer is active.
C7_ErrorTeardown ==
    status = "error" /\ (errFired \/ mic = "failed") =>
        /\ processor # "connected"
        /\ conn # "open"
        /\ sources = {}

\* A session.close() is queued: on the pending session promise or as a microtask.
ClosePending ==
    \/ \E i \in DOMAIN thenQueue : thenQueue[i].kind = "close"
    \/ \E i \in DOMAIN microtasks : microtasks[i].kind = "close"

\* C8 - Release on every exit path: once the component is unmounted no
\* microphone track is running, and a transport connection that is being
\* established or is open has its close queued.
C8_ReleaseOnExit ==
    ~isMounted =>
        /\ streamRef # "live"
        /\ conn \in {"connecting", "open"} => ClosePending

\* C9 - Device failure: after getUserMedia has failed the status is error, no
\* transport connection was requested and nothing was captured or sent.
C9_DeviceFailure ==
    mic = "failed" =>
        /\ status = "error"
        /\ conn = "none"
        /\ sessionPromise = "null"
        /\ processor = "null"
        /\ captured = 0
        /\ sent = <<>>

\* C9 witness: the microphone request failed and the error is shown.
C9_Witness ==
    mic = "failed" /\ status = "error" /\ errorMessage = "mic"

\* C10 - Opening: onopen on a mounted component moves the status from
\* connecting to listening and connects the capture chain; the capture chain
\* exists, and blocks are captured or sent, only after onopen has fired.
C10_Opening ==
    /\ [](processor # "null" \/ captured > 0 \/ sent # <<>> => opened)
    /\ [][ ~opened /\ opened' /\ isMounted =>
              /\ status = "connecting"
              /\ status' = "listening"
              /\ processor' = "connected" ]_vars

\* C10 witness: after onopen the status is listening, capture is connected and
\* a captured block has been sent.
C10_Witness ==
    /\ opened
    /\ isMounted
    /\ status = "listening"
    /\ processor = "connected"
    /\ Len(sent) >= 1

\* The transport can still raise onerror: it is connecting or open and has not
\* raised it yet.
ErrorTrigger == conn \in {"connecting", "open"} /\ ~errFired

\* C11 - State machine reachability: from every state of a mounted component
\* whose status is connecting, listening or speaking and whose transport can
\* raise onerror, onerror leads to the error status, and so does a microphone
\* failure while the request is pending; from listening an audio message leads
\* to speaking and hands its chunk to the scheduler, and from speaking a
\* TurnComplete message leads to listening.
C11_Reachability ==
    /\ isMounted /\ Idle /\ ErrorTrigger => ENABLED (OnError /\ status' = "error")
    /\ mic = "pending" /\ Idle => ENABLED (MicDenied /\ status' = "error")
    /\ isMounted /\ Idle /\ conn = "open" /\ enqueued < MaxChunks =>
          ENABLED (OnMessage(1, FALSE, FALSE) /\ status' = "speaking")
    /\ microtasks # <<>> /\ Head(microtasks).kind = "play" /\ Head(microtasks).arg > 0 =>
          ENABLED (PlayContinuation /\ enqueued' = enqueued + 1)
    /\ isMounted /\ Idle /\ conn = "open" =>
          ENABLED (OnMessage(0, FALSE, TRUE) /\ status' = "listening")

\* C11 witness: the status is back at listening after an audio message was
\* scheduled (its buffer still active) and a TurnComplete followed, and the
\* transport can still raise onerror.
C11_Witness ==
    /\ status = "listening"
    /\ sources # {}
    /\ isMounted
    /\ Idle
    /\ ErrorTrigger

\* C12 - Outbound FIFO: the blocks are sent in the order they were captured
\* (block ids count captures), whether their send waited for the session
\* promise or not.
C12_OutboundFifo ==
    \A i, j \in DOMAIN sent : i < j => sent[i] < sent[j]

\* C12 witness: two captured blocks have been sent.
C12_Witness ==
    Len(sent) = 2 /\ sent[1] = 1 /\ sent[2] = 2

\* The message handlers suspended at `await playAudioChunk`.
SuspendedHandlers == {i \in DOMAIN microtasks : microtasks[i].kind = "play"}

\* C13 - Inbound FIFO: at most one message handler is suspended in decoding at
\* any time, so the buffer of an audio message gets its start time and
\* advances the cursor before the next message is handled; buffers enqueued
\* earlier start earlier.
C13_InboundFifo ==
    /\ Cardinality(SuspendedHandlers) <= 1
    /\ \A a, b \in sources : a.id < b.id => a.start < b.start

\* C13 witness: the buffers of two audio messages are active, the second one
\* just scheduled behind the first.
C13_Witness ==
    /\ lastOp = "play"
    /\ Cardinality(sources) = 2
    /\ \E a, b \in sources : a.id < b.id /\ b.start = a.start + a.dur

\* ============================================================ codec helpers
\* Bounds of the codec check.  A Float32 sample v is held as the integer
\* v * FullScale * SubSteps, so SubSteps values lie between two 16-bit levels.
SubSteps == 2
MaxSamples == 2
MaxLen == 3

\* The scale factor of createBlob and decodeAudioData.
FullScale == 32768

\* The sample value 1.0.
One == FullScale * SubSteps

\* Sample values of [-1.0, 1.0]: both endpoints, their neighbours, values
\* around zero and values between two 16-bit levels.
Samples == {-One, 1 - One, -SubSteps - 1, -SubSteps, -1, 0, 1, SubSteps, SubSteps + 1,
            (One \div 2) + 1, One - SubSteps, One - 1, One}

\* Byte values around the 6-bit and 8-bit boundaries.
ByteSamples == {0, 1, 3, 4, 15, 16, 63, 64, 127, 128, 252, 254, 255}

SeqsUpTo(S, n) == UNION {[1..k -> S] : k \in 0..n}

SampleSeqs == SeqsUpTo(Samples, MaxSamples)

\* Every mix of the byte samples, and every byte value 0..255 at every position.
ByteSeqs == SeqsUpTo(ByteSamples, MaxLen) \cup UNION {[1..k -> {b}] : k \in 1..MaxLen, b \in 0..255}

\* Truncation toward zero of n / d (d > 0): the integer part of a number.
Trunc(n, d) == IF n >= 0 THEN n \div d ELSE -((-n) \div d)

\* An Int16Array element store: modulo 2^16, read back as a signed value.
ToInt16(i) == LET m == i % 65536 IN IF m >= 32768 THEN m - 65536 ELSE m

\* Mutant of ToUint8: the bytes are stored as signed values.
ToUint8_Signed(c) == LET m == c % 256 IN IF m >= 128 THEN m - 256 ELSE m

\* A Uint8Array element store.
ToUint8(c) == c % 256

\* The padding character '=' of a base64 text, whose other characters are
\* held as their 6-bit values 0..63.
Pad == 64

\* btoa: each group of three char codes gives four 6-bit characters; a last
\* group of one or two char codes is padded.
RECURSIVE btoa(_)
btoa(bin) ==
    IF Len(bin) = 0 THEN <<>>
    ELSE IF Len(bin) = 1 THEN <<bin[1] \div 4, (bin[1] % 4) * 16, Pad, Pad>>
    ELSE IF Len(bin) = 2 THEN
        <<bin[1] \div 4, (bin[1] % 4) * 16 + (bin[2] \div 16), (bin[2] % 16) * 4, Pad>>
    ELSE <<bin[1] \div 4, (bin[1] % 4) * 16 + (bin[2] \div 16),
           (bin[2] % 16) * 4 + (bin[3] \div 64), bin[3] % 64>>
         \o btoa(SubSeq(bin, 4, Len(bin)))

\* atob: each group of four characters gives three char codes, fewer if padded.
RECURSIVE atob(_)
atob(b64) ==
    IF Len(b64) < 4 THEN <<>>
    ELSE LET c1 == b64[1] * 4 + (b64[2] \div 16)
             c2 == (b64[2] % 16) * 16 + (b64[3] \div 4)
             c3 == (b64[3] % 4) * 64 + b64[4]
             group == IF b64[3] = Pad THEN <<c1>>
                      ELSE IF b64[4] = Pad THEN <<c1, c2>>
                      ELSE <<c1, c2, c3>>
         IN group \o atob(SubSeq(b64, 5, Len(b64)))

\* encode: a binary string of one char code per byte, then btoa.
encode(bytes) == btoa([i \in 1..Len(bytes) |-> bytes[i]])

\* decode: atob, then each char code stored into a Uint8Array.
decode(base64) == LET binaryString == atob(base64)
                  IN [i \in 1..Len(binaryString) |-> ToUint8(binaryString[i])]

\* The bytes of an Int16Array's buffer (little-endian).
Int16Bytes(int16) ==
    [k \in 1..(2 * Len(int16)) |->
        LET u == int16[(k + 1) \div 2] % 65536
        IN IF k % 2 = 1 THEN u % 256 ELSE u \div 256]

\* createBlob: int16[i] = data[i] * 32768, then the buffer's bytes encoded.
\* The product is the number data[i] / SubSteps in the model's unit; the store
\* drops its fraction and wraps it to 16 bits.
createBlob(data) ==
    encode(Int16Bytes([i \in 1..Len(data) |-> ToInt16(Trunc(data[i], SubSteps))]))

\* decodeAudioData (one channel): the bytes read as Int16, each divided by
\* 32768.0, which is the Int16 value times SubSteps in the model's unit.
decodeAudioData(data) ==
    [i \in 1..(Len(data) \div 2) |->
        ToInt16(data[2 * i - 1] + 256 * data[2 * i]) * SubSteps]

CodecInit ==
    /\ SessionInit
    /\ AppStart
    /\ \/ codecOp = "samples" /\ codecIn \in SampleSeqs
       \/ codecOp = "bytes" /\ codecIn \in ByteSeqs
    /\ codecOut = <<>>

sessionVars == <<status, errorMessage, isMounted, mic, streamRef, sessionPromise, conn,
                 opened, errFired, thenQueue, microtasks, processor, inputCtx, outputCtx,
                 captured, sent, currentTime, nextStartTime, enqueued, sources, stopped,
                 last, timers, lastOp, cleanups, rejections>>

\* A block of samples goes out through createBlob and comes back through
\* decode and decodeAudioData.
PcmRoundTrip ==
    /\ codecOp = "samples"
    /\ codecOp' = "pcm"
    /\ codecOut' = decodeAudioData(decode(createBlob(codecIn)))
    /\ UNCHANGED <<codecIn, sessionVars, appVars>>

\* A byte sequence goes through encode and decode.
Base64RoundTrip ==
    /\ codecOp = "bytes"
    /\ codecOp' = "base64"
    /\ codecOut' = decode(encode(codecIn))
    /\ UNCHANGED <<codecIn, sessionVars, appVars>>

CodecNext ==
    \/ PcmRoundTrip
    \/ Base64RoundTrip

CodecSpec == CodecInit /\ [][CodecNext]_vars

Abs(x) == IF x >= 0 THEN x ELSE -x

\* C14 - PCM round-trip: every sample of [-1.0, 1.0], endpoints included,
\* comes back from the 16-bit encoding within 1/32768 of its value.
\* Violated: the sample 1.0 is scaled to 32768, which the Int16 store wraps to
\* -32768, and comes back as -1.0.
C14_PcmRoundTrip ==
    codecOp = "pcm" =>
        /\ Len(codecOut) = Len(codecIn)
        /\ \A i \in 1..Len(codecIn) : Abs(codecOut[i] - codecIn[i]) <= SubSteps

\* C15 - Transport text encoding round-trip: decode(encode(B)) = B for every
\* byte sequence B.
C15_Base64RoundTrip ==
    codecOp = "base64" => codecOut = codecIn

\* C15 witness: a padded two-byte sequence with the high bit set went through.
C15_Witness ==
    /\ codecOp = "base64"
    /\ codecIn = <<255, 128>>
    /\ codecOut = <<255, 128>>

\* ================================================== teardown run more than once
\* Bound on the number of cleanup() calls.
MaxCleanups == 2

\* cleanup() called again after the effect's cleanup has run.
CleanupAgain ==
    /\ Idle
    /\ ~isMounted
    /\ cleanups < MaxCleanups
    /\ cleanup
    /\ lastOp' = "other"
    /\ UNCHANGED <<status, errorMessage, isMounted, mic, sessionPromise, captured, sent,
                   currentTime>>
    /\ UNCHANGED <<schedVars, transportVars, codecVars, appVars>>

TeardownNext ==
    \/ Next
    \/ CleanupAgain

TeardownSpec == Init /\ [][TeardownNext]_vars

\* C16 - Idempotent teardown: a cleanup that runs after an earlier cleanup, or
\* on a session whose start never succeeded, produces no error and leaves the
\* devices as the single cleanup left them.
\* Violated: both contexts are already closed at the second cleanup, and
\* close() on a closed context returns a rejected promise that nothing handles.
C16_IdempotentTeardown ==
    [][cleanups' = cleanups + 1 =>
          /\ rejections' = 0
          /\ cleanups >= 1 =>
                /\ streamRef' = streamRef
                /\ processor' = processor
                /\ inputCtx' = inputCtx
                /\ outputCtx' = outputCtx]_vars

\* A step that resumes onmessage after playAudioChunk failed on its chunk.
DropStep ==
    /\ microtasks # <<>>
    /\ Head(microtasks).kind = "play"
    /\ Head(microtasks).arg < 0
    /\ microtasks' = Tail(microtasks)

\* C17 - Contained chunk failure: a chunk whose decoding fails starts no
\* buffer and is never in ActiveSources, the status does not become error,
\* nothing is torn down, and the scheduler is left as it was (or flushed, if
\* the same message carried Interrupted): the cursor does not decrease and
\* the next chunk is scheduled as if the failed one had not arrived.
C17_ContainedChunkFailure ==
    [][DropStep =>
          /\ enqueued' = enqueued
          /\ sources' \subseteq sources
          /\ status' # "error"
          /\ errorMessage' = errorMessage
          /\ UNCHANGED <<captureVars, deviceVars, transportVars, timers>>
          /\ ~Head(microtasks).intr => UNCHANGED <<sources, stopped, nextStartTime, last>>
          /\ Head(microtasks).intr =>
                /\ sources' = {}
                /\ nextStartTime' = currentTime]_vars

\* C17 witness: a chunk was dropped while an earlier buffer is still active
\* and the session goes on.
C17_Witness ==
    /\ lastOp = "dropped"
    /\ sources # {}
    /\ status = "speaking"
    /\ conn = "open"
    /\ enqueued < MaxChunks

\* C18 - Teardown includes flush: the teardown of the session leaves the
\* scheduler as a flush does (ActiveSources empty, its buffers stopped, the
\* cursor reset to the current time) and the output device released.
\* Violated: cleanup closes the output context but never calls stopAllAudio.
C18_TeardownFlushes ==
    [][cleanups' = cleanups + 1 =>
          /\ sources' = {}
          /\ stopped' = stopped \cup {src.id : src \in sources}
          /\ nextStartTime' = currentTime
          /\ outputCtx' = "closed"]_vars

\* The buffers of ActiveSources, by the order in which they were started.
ActiveIds == {s.id : s \in sources}

\* C19 - ActiveSources membership: a buffer enters the set in the step that
\* starts it (or is stopped in that same step by the message's Interrupted
\* branch) and under a new id; it leaves by its own completion, one buffer at
\* a time once its playback time is over, or by a flush, which stops all the
\* buffers of the set; a stopped buffer is not in the set, and its completion
\* notification leaves the set as it is.
C19_Membership ==
    /\ [](/\ ActiveIds \subseteq 1..enqueued
          /\ Cardinality(ActiveIds) = Cardinality(sources)
          /\ ActiveIds \cap stopped = {})
    /\ [][/\ ActiveIds' \ ActiveIds \subseteq {enqueued + 1}
          /\ enqueued' # enqueued =>
                /\ enqueued' = enqueued + 1
                /\ enqueued' \in ActiveIds' \cup stopped'
          /\ sources \ sources' # {} =>
                \/ /\ lastOp' = "interrupted"
                   /\ sources' = {}
                   /\ ActiveIds \subseteq stopped'
                \/ /\ lastOp' = "other"
                   /\ \E src \in sources :
                         /\ sources' = sources \ {src}
                         /\ currentTime >= src.start + src.dur
                         /\ src.id \notin stopped'
          /\ stopped' # stopped /\ stopped' \subseteq stopped => sources' = sources]_vars

\* C19 witness: a buffer started after a flush is active while the completion
\* notification of a flushed buffer is still due.
C19_Witness ==
    /\ stopped # {}
    /\ sources # {}
    /\ \A id \in stopped : \A src \in sources : id < src.id
    /\ lastOp = "play"

\* C20 - Interrupted cancels only playback: the handling of an Interrupted
\* event leaves the transport connection and its session promise, the capture
\* chain, the devices and the error message as they were.
C20_InterruptedOnlyPlayback ==
    [][FlushStep =>
          /\ UNCHANGED <<conn, opened, errFired, sessionPromise, thenQueue>>
          /\ UNCHANGED <<processor, captured, sent, mic, streamRef, inputCtx, outputCtx>>
          /\ UNCHANGED <<errorMessage, isMounted>>]_vars

\* C20 witness: an Interrupted event was handled while capture is running
\* with blocks already sent; the connection is still open.
C20_Witness ==
    /\ lastOp = "interrupted"
    /\ stopped # {}
    /\ conn = "open"
    /\ processor = "connected"
    /\ Len(sent) >= 1
    /\ errorMessage = ""

\* C21 - No stale callbacks after teardown: once the component is unmounted,
\* no step updates the status or the error message, starts a buffer or adds
\* one to ActiveSources, moves the cursor, captures an outbound block, or
\* stores a new stream or a new session in the refs.
\* Violated: startSession resumes after `await getUserMedia` with no mounted
\* check, in its try block as in its catch.
C21_NoStaleCallbacks ==
    [][~isMounted =>
          /\ status' = status
          /\ errorMessage' = errorMessage
          /\ enqueued' = enqueued
          /\ sources' \subseteq sources
          /\ nextStartTime' = nextStartTime
          /\ captured' = captured
          /\ (streamRef' = "null") = (streamRef = "null")
          /\ (sessionPromise' = "null") = (sessionPromise = "null")]_vars

\* A step that handles a TurnComplete event: a message without audio, or the
\* rest of the handler of a message that carried a chunk as well.
TurnCompleteStep ==
    \/ isMounted /\ \E intr \in BOOLEAN : OnMessage(0, intr, TRUE)
    \/ /\ microtasks # <<>>
       /\ Head(microtasks).kind = "play"
       /\ Head(microtasks).turn
       /\ PlayContinuation

Conversing == {"speaking", "listening"}

\* C22 - Redundant triggers converge: TurnComplete sets the status to
\* listening whatever it was; the drained timer, fired while the status is
\* speaking or listening, leaves it in those two values and never moves it
\* away from listening.  Whichever of the two comes second, the status is
\* listening after it.
C22_TriggersConverge ==
    [][/\ TurnCompleteStep => status' = "listening"
       /\ TimerFire /\ status \in Conversing =>
             /\ status' \in Conversing
             /\ status = "listening" => status' = "listening"]_vars

\* C22 witness: the drained timer fired after TurnComplete had already set
\* the status to listening (no flush since the last buffer was started).
C22_Witness ==
    /\ lastOp = "timer"
    /\ status = "listening"
    /\ last # NoBuffer
    /\ sources = {}
    /\ isMounted

\* C23 - The drained timer does not silence a newer utterance: a timer that
\* fires while ActiveSources holds a buffer (a chunk was scheduled during the
\* delay) leaves the status as it is, so a switch to listening made by the
\* timer is made with ActiveSources empty.
C23_TimerSparesNewerChunk ==
    [][TimerFire =>
          /\ sources # {} => status' = status
          /\ status' = "listening" /\ status # "listening" => sources = {}]_vars

\* C23 witness: the timer fired while a chunk scheduled during its delay is
\* active, and the status is still speaking.
C23_Witness ==
    /\ lastOp = "timer"
    /\ sources # {}
    /\ status = "speaking"
    /\ isMounted

\* The reactions still to run, in the order they will run: the microtasks,
\* then the reactions waiting for the session promise.
PendingReactions == microtasks \o thenQueue

SendPending == \E i \in DOMAIN PendingReactions : PendingReactions[i].kind = "send"

\* C24 - No send after close: no send is queued behind cleanup's
\* session.close(), so once that close has run no block is sent any more; a
\* block sent after the unmount was captured before it, is sent with the close
\* still queued behind it, and in capture order.
C24_NoSendAfterClose ==
    /\ [](/\ \A i, j \in DOMAIN PendingReactions :
                i < j => ~(PendingReactions[i].kind = "close"
                           /\ PendingReactions[j].kind = "send")
          /\ ~isMounted /\ ~ClosePending => ~SendPending)
    /\ [][/\ sent' # sent =>
                /\ isMounted \/ ClosePending'
                /\ Head(microtasks).arg <= captured
                /\ sent' = Append(sent, Head(microtasks).arg)
                /\ \A i \in DOMAIN sent : sent[i] < Head(microtasks).arg
          /\ ~isMounted /\ ClosePending /\ ~ClosePending' => sent' = sent /\ ~SendPending'
          /\ ~isMounted => captured' = captured]_vars

\* C24 witness: after the unmount, with the session promise resolved late, one
\* pending block has been sent, the next is about to be, and the close is
\* queued behind it.
C24_Witness ==
    /\ ~isMounted
    /\ sent = <<1>>
    /\ Len(microtasks) = 2
    /\ microtasks[1].kind = "send"
    /\ microtasks[2].kind = "close"

\* ================================================================ App component
\* Bound on the number of images selected.
MaxSelections == 3

\* handleImageSelected up to `await identifyAnimal`; the uploader is rendered
\* in the UPLOAD state only.
handleImageSelected ==
    /\ appState = "UPLOAD"
    /\ selections < MaxSelections
    /\ selections' = selections + 1
    /\ selectedImage' = selections + 1
    /\ appState' = "ANALYZING"
    /\ errorMsg' = "null"
    /\ identifying' = identifying \cup {selections + 1}
    /\ UNCHANGED <<animalData, isChatOpen, isVoiceOpen>>
    /\ UNCHANGED <<sessionVars, codecVars>>

\* handleImageSelected after the await: identifyAnimal returned the details.
IdentifyResolved(img) ==
    /\ img \in identifying
    /\ identifying' = identifying \ {img}
    /\ animalData' = img
    /\ appState' = "RESULTS"
    /\ UNCHANGED <<selectedImage, isChatOpen, isVoiceOpen, errorMsg, selections>>
    /\ UNCHANGED <<sessionVars, codecVars>>

\* handleImageSelected after the await: identifyAnimal threw.
IdentifyRejected(img) ==
    /\ img \in identifying
    /\ identifying' = identifying \ {img}
    /\ errorMsg' = "failed"
    /\ appState' = "ERROR"
    /\ UNCHANGED <<selectedImage, animalData, isChatOpen, isVoiceOpen, selections>>
    /\ UNCHANGED <<sessionVars, codecVars>>

\* handleReset: the logo (always rendered), New Scan, Try Again, onReset.
handleReset ==
    /\ appState' = "UPLOAD"
    /\ selectedImage' = 0
    /\ animalData' = 0
    /\ isChatOpen' = FALSE
    /\ isVoiceOpen' = FALSE
    /\ errorMsg' = "null"
    /\ UNCHANGED <<identifying, selections>>
    /\ UNCHANGED <<sessionVars, codecVars>>

\* AnimalResults is rendered: RESULTS with details and an image.
ResultsShown == appState = "RESULTS" /\ animalData # 0 /\ selectedImage # 0

\* onAskAI
onAskAI ==
    /\ ResultsShown
    /\ isChatOpen' = TRUE
    /\ UNCHANGED <<appState, selectedImage, animalData, isVoiceOpen, errorMsg, identifying,
                   selections>>
    /\ UNCHANGED <<sessionVars, codecVars>>

\* onVoiceMode
onVoiceMode ==
    /\ ResultsShown
    /\ isVoiceOpen' = TRUE
    /\ UNCHANGED <<appState, selectedImage, animalData, isChatOpen, errorMsg, identifying,
                   selections>>
    /\ UNCHANGED <<sessionVars, codecVars>>

\* ChatSidebar's onClose (the sidebar is rendered while animalData is set).
CloseChat ==
    /\ animalData # 0
    /\ isChatOpen
    /\ isChatOpen' = FALSE
    /\ UNCHANGED <<appState, selectedImage, animalData, isVoiceOpen, errorMsg, identifying,
                   selections>>
    /\ UNCHANGED <<sessionVars, codecVars>>

\* VoiceModal's onClose.
CloseVoice ==
    /\ animalData # 0
    /\ isVoiceOpen
    /\ isVoiceOpen' = FALSE
    /\ UNCHANGED <<appState, selectedImage, animalData, isChatOpen, errorMsg, identifying,
                   selections>>
    /\ UNCHANGED <<sessionVars, codecVars>>

AppNext ==
    \/ handleImageSelected
    \/ \E img \in identifying : IdentifyResolved(img)
    \/ \E img \in identifying : IdentifyRejected(img)
    \/ handleReset
    \/ onAskAI
    \/ onVoiceMode
    \/ CloseChat
    \/ CloseVoice

AppSpec == Init /\ [][AppNext]_vars

\* C25 - Results match the selected image: in the RESULTS state an image is
\* selected and animalData is what was identified for that image.
\* Violated: the continuation of handleImageSelected does not test whether its
\* request is still the current one.
C25_ResultsMatchImage ==
    appState = "RESULTS" => selectedImage # 0 /\ animalData = selectedImage

\* A step in which the remote end closes the open connection (the close that
\* cleanup requested runs as a microtask instead).
RemoteCloseStep == Idle /\ conn = "open" /\ conn' = "closed"

\* C26 - Remote close is silent: the step in which the transport reports its
\* close leaves the status, the error message, ActiveSources, the cursor, the
\* pending timers and the capture chain as they were.
C26_RemoteCloseSilent ==
    [][RemoteCloseStep =>
          /\ UNCHANGED <<status, errorMessage>>
          /\ UNCHANGED <<sources, stopped, nextStartTime, enqueued, last, timers>>
          /\ UNCHANGED <<processor, captured, streamRef, inputCtx, outputCtx>>]_vars

\* C26 witness: the remote closed the connection while the status is
\* speaking with a buffer active and capture running; nothing reports it.
C26_Witness ==
    /\ conn = "closed"
    /\ isMounted
    /\ status = "speaking"
    /\ sources # {}
    /\ processor = "connected"
    /\ errorMessage = ""

====
